---- MODULE Spec2Model ----
(***************************************************************************)
(* Model of smartromsync.sy_sync.SystemSync: the release-tag               *)
(* classification engine (tag extraction, region and special resolution,   *)
(* include/exclude filters, destination mapping).                          *)
(*                                                                         *)
(* Python strings are modelled as sequences of one-character strings, so   *)
(* that the substring test `a in b`, the regular expression of the tag     *)
(* extractor and the path normalisation are computed character by          *)
(* character.  An optional value (`x | None`) is a sequence of length at   *)
(* most one: None is <<>> and a present value v is <<v>>.                  *)
(***************************************************************************)
EXTENDS Integers, Sequences, FiniteSets, TLC

VARIABLES
    pc,                     \* position of the program
    target_def,             \* SystemSync.target_def
    remote_dir,             \* SystemSync.remote_dir
    region_list_include,    \* SystemSync.region_list_include
    region_list_exclude,    \* SystemSync.region_list_exclude
    special_list_include,   \* SystemSync.special_list_include
    special_list_exclude,   \* SystemSync.special_list_exclude
    remote_dir_full,        \* SystemSync.remote_dir_full
    all_files,              \* SystemSync.all_files (paths relative to local_dir)
    n,                      \* number of files of all_files already classified
    files_to_push,          \* the dict built by _get_files_to_push, in insertion order
    filename,               \* file_path.name of the file being classified
    bracket_contents,       \* the result of re.findall in _get_release_info
    idx,                    \* the index returned by _get_region
    release_info,           \* the ReleaseInfo of the file being classified
    allowed_special,        \* result of _check_allowed_special
    allowed_region,         \* result of _check_allowed_region
    local_dir,              \* what SystemSync.local_dir holds: None when it is not a directory
    rerun,                  \* _get_files_to_push has been called again on the same object
    rsync_inputs,           \* SystemSync.rsync_inputs
    dry_run,                \* SystemSync.dry_run
    no_run,                 \* SystemSync.no_run
    rsync_host_str,         \* SystemSync.rsync_host_str
    dest_n,                 \* number of destinations rsync() has been through
    effects,                \* what rsync() has logged, written and executed, in order
    handlers,               \* the handlers of the logger given to setup_logger
    level,                  \* the level of that logger
    log_calls               \* the setup_logger calls made: arguments and exception

vars == << pc, target_def, remote_dir, region_list_include, region_list_exclude, special_list_include,
           special_list_exclude, remote_dir_full, all_files, n, files_to_push,
           filename, bracket_contents, idx, release_info, allowed_special,
           allowed_region, local_dir, rerun, rsync_inputs, dry_run, no_run,
           rsync_host_str, dest_n, effects, handlers, level, log_calls >>

\* the state of rsync()
rsync_vars == << dry_run, no_run, rsync_host_str, dest_n, effects >>

\* the state of the logger
logger_vars == << handlers, level, log_calls >>

----------------------------------------------------------------------------
(* Bounds *)

MaxTags == 3          \* tags per filename when the resolvers are checked

MaxFilterTags == 2    \* tags per filename when the filters are checked

MaxFiles == 3         \* length of the file list

MaxCalls == 2         \* calls of setup_logger on one logger

----------------------------------------------------------------------------
(* Python values *)

None == << >>

Some(v) == << v >>

\* truth value of an `int | None`: None and 0 are falsy
TruthyInt(opt) == opt # None /\ opt[1] # 0

\* truth value of a `str | None`: None and "" are falsy
TruthyStr(opt) == opt # None /\ opt[1] # << >>

\* a in b, for two strings
IsIn(a, b) == \E i \in 0..(Len(b) - Len(a)) : SubSeq(b, i + 1, i + Len(a)) = a

\* x in list, for a list of strings
InList(x, list) == \E k \in 1..Len(list) : list[k] = x

\* list[::-1]
Reversed(list) == [k \in 1..Len(list) |-> list[Len(list) + 1 - k]]

\* list.pop(i), i counted from 0: the list that remains
Pop(list, i) == SubSeq(list, 1, i) \o SubSeq(list, i + 2, Len(list))

SetMin(S) == CHOOSE x \in S : \A y \in S : x <= y

SetMax(S) == CHOOSE x \in S : \A y \in S : y <= x

RECURSIVE Concat(_)
Concat(ss) == IF ss = << >> THEN << >> ELSE Head(ss) \o Concat(Tail(ss))

----------------------------------------------------------------------------
(* Class constants of SystemSync *)

s_USA == <<"U","S","A">>
s_Europe == <<"E","u","r","o","p","e">>
s_Japan == <<"J","a","p","a","n">>
s_World == <<"W","o","r","l","d">>
s_France == <<"F","r","a","n","c","e">>
s_Unknown == <<"U","n","k","n","o","w","n">>
s_Demo == <<"D","e","m","o">>
s_Aftermarket == <<"A","f","t","e","r","m","a","r","k","e","t">>
s_Unlicensed == <<"U","n","l","i","c","e","n","s","e","d">>
s_Unl == <<"U","n","l">>
s_Pirate == <<"P","i","r","a","t","e">>
s_Unreleased == <<"U","n","r","e","l","e","a","s","e","d">>
s_Proto == <<"P","r","o","t","o">>

SPECIAL_DIR_CRITERIA ==
    << [special |-> s_Demo,        equivalents |-> << s_Demo >>],
       [special |-> s_Aftermarket, equivalents |-> << s_Aftermarket >>],
       [special |-> s_Unlicensed,  equivalents |-> << s_Unlicensed, s_Unl, s_Pirate >>],
       [special |-> s_Unreleased,  equivalents |-> << s_Unreleased, s_Proto >>] >>

REGION_ALWAYS_ALLOWED == << s_World, s_Unknown >>

REGION_LIST ==
    << s_USA,
       s_Europe,
       s_Japan,
       s_World,
       <<"A","s","i","a">>,
       <<"K","o","r","e","a">>,
       <<"A","u","s","t","r","a","l","i","a">>,
       <<"G","e","r","m","a","n","y">>,
       s_France,
       <<"I","t","a","l","y">>,
       <<"T","a","i","w","a","n">>,
       <<"S","w","e","d","e","n">>,
       <<"S","p","a","i","n">>,
       s_Unknown,
       <<"H","o","n","g"," ","K","o","n","g">>,
       <<"C","h","i","n","a">>,
       <<"B","r","a","z","i","l">>,
       <<"C","a","n","a","d","a">>,
       <<"R","u","s","s","i","a">>,
       <<"U","n","i","t","e","d"," ","K","i","n","g","d","o","m">>,
       <<"L","a","t","i","n"," ","A","m","e","r","i","c","a">>,
       <<"N","e","t","h","e","r","l","a","n","d","s">>,
       <<"S","c","a","n","d","i","n","a","v","i","a">>,
       <<"A","r","g","e","n","t","i","n","a">>,
       <<"M","e","x","i","c","o">>,
       <<"D","e","n","m","a","r","k">> >>

----------------------------------------------------------------------------
(* _get_region *)

\* exact_scan with the first exact match kept instead of the last
RECURSIVE exact_scan_first(_, _, _)
exact_scan_first(release_info_raw, k, st) ==
    IF k > Len(release_info_raw) THEN st
    ELSE exact_scan_first(release_info_raw, k + 1,
            IF InList(release_info_raw[k], REGION_LIST) /\ st.current_candidate_region = None
            THEN [current_candidate_region |-> Some(release_info_raw[k]),
                  region_full_str |-> st.region_full_str,
                  region_index |-> Some(k - 1)]
            ELSE st)

\* the state of the exact-match loop: current_candidate_region, region_index
RECURSIVE exact_scan(_, _, _)
exact_scan(release_info_raw, k, st) ==
    IF k > Len(release_info_raw) THEN st
    ELSE exact_scan(release_info_raw, k + 1,
            IF InList(release_info_raw[k], REGION_LIST)
            THEN [current_candidate_region |-> Some(release_info_raw[k]),
                  region_full_str |-> st.region_full_str,
                  region_index |-> Some(k - 1)]
            ELSE st)

\* partial_scan_regions with region_full_str set to the vocabulary entry
partial_scan_regions_entry(release_snippet, k, region_list_reversed, st) ==
    LET hits == { j \in 1..Len(region_list_reversed) :
                    IsIn(region_list_reversed[j], release_snippet) }
    IN  IF hits = {} THEN st
        ELSE [current_candidate_region |-> Some(region_list_reversed[SetMax(hits)]),
              region_full_str |-> Some(region_list_reversed[SetMax(hits)]),
              region_index |-> Some(k - 1)]

\* partial_scan_regions without the assignment of region_full_str
partial_scan_regions_unbound(release_snippet, k, region_list_reversed, st) ==
    LET hits == { j \in 1..Len(region_list_reversed) :
                    IsIn(region_list_reversed[j], release_snippet) }
    IN  IF hits = {} THEN st
        ELSE [current_candidate_region |-> Some(region_list_reversed[SetMax(hits)]),
              region_full_str |-> st.region_full_str,
              region_index |-> Some(k - 1)]

\* the inner loop of the partial-match pass, over region_list_reversed: every
\* entry found inside the tag overwrites the candidate, so the loop leaves the
\* last such entry of region_list_reversed, or the candidate it started with
partial_scan_regions(release_snippet, k, region_list_reversed, st) ==
    LET hits == { j \in 1..Len(region_list_reversed) :
                    IsIn(region_list_reversed[j], release_snippet) }
    IN  IF hits = {} THEN st
        ELSE [current_candidate_region |-> Some(region_list_reversed[SetMax(hits)]),
              region_full_str |-> Some(release_snippet),
              region_index |-> Some(k - 1)]

\* partial_scan over the vocabulary in declaration order
RECURSIVE partial_scan_unreversed(_, _, _)
partial_scan_unreversed(release_info_raw, k, st) ==
    IF k > Len(release_info_raw) THEN st
    ELSE partial_scan_unreversed(release_info_raw, k + 1,
            partial_scan_regions(release_info_raw[k], k, REGION_LIST, st))

\* the outer loop of the partial-match pass, over the tags
RECURSIVE partial_scan(_, _, _)
partial_scan(release_info_raw, k, st) ==
    IF k > Len(release_info_raw) THEN st
    ELSE partial_scan(release_info_raw, k + 1,
            partial_scan_regions(release_info_raw[k], k, Reversed(REGION_LIST), st))

\* get_region falling back to the first vocabulary entry instead of "Unknown"
get_region_default_first(release_info_raw) ==
    LET st0 == [current_candidate_region |-> None,
                region_full_str |-> None,
                region_index |-> None]
        st1 == exact_scan(release_info_raw, 1, st0)
        st2 == partial_scan(release_info_raw, 1, st1)
    IN  IF TruthyStr(st1.current_candidate_region)
        THEN [region_dir |-> st1.current_candidate_region[1],
              region_full |-> st1.current_candidate_region[1],
              idx |-> st1.region_index]
        ELSE IF TruthyStr(st2.current_candidate_region)
        THEN [region_dir |-> st2.current_candidate_region[1],
              region_full |-> st2.region_full_str[1],
              idx |-> st2.region_index]
        ELSE [region_dir |-> REGION_LIST[1], region_full |-> REGION_LIST[1], idx |-> None]

\* get_region with the whole matched tag as region_dir
get_region_dir_full(release_info_raw) ==
    LET st0 == [current_candidate_region |-> None,
                region_full_str |-> None,
                region_index |-> None]
        st1 == exact_scan(release_info_raw, 1, st0)
        st2 == partial_scan(release_info_raw, 1, st1)
    IN  IF TruthyStr(st1.current_candidate_region)
        THEN [region_dir |-> st1.current_candidate_region[1],
              region_full |-> st1.current_candidate_region[1],
              idx |-> st1.region_index]
        ELSE IF TruthyStr(st2.current_candidate_region)
        THEN [region_dir |-> st2.region_full_str[1],
              region_full |-> st2.region_full_str[1],
              idx |-> st2.region_index]
        ELSE [region_dir |-> s_Unknown, region_full |-> s_Unknown, idx |-> None]

\* the exception _get_region raises, if any: line 192 reads region_full_str,
\* a local that only the partial-match loop assigns
get_region_raises(release_info_raw) ==
    LET st0 == [current_candidate_region |-> None,
                region_full_str |-> None,
                region_index |-> None]
        st1 == exact_scan(release_info_raw, 1, st0)
        st2 == partial_scan(release_info_raw, 1, st1)
    IN  IF /\ ~TruthyStr(st1.current_candidate_region)
           /\ TruthyStr(st2.current_candidate_region)
           /\ st2.region_full_str = None
        THEN Some("UnboundLocalError")
        ELSE None

get_region(release_info_raw) ==
    LET st0 == [current_candidate_region |-> None,
                region_full_str |-> None,
                region_index |-> None]
        st1 == exact_scan(release_info_raw, 1, st0)
        st2 == partial_scan(release_info_raw, 1, st1)
    IN  IF TruthyStr(st1.current_candidate_region)
        THEN [region_dir |-> st1.current_candidate_region[1],
              region_full |-> st1.current_candidate_region[1],
              idx |-> st1.region_index]
        ELSE IF TruthyStr(st2.current_candidate_region)
        THEN [region_dir |-> st2.current_candidate_region[1],
              region_full |-> st2.region_full_str[1],
              idx |-> st2.region_index]
        ELSE [region_dir |-> s_Unknown, region_full |-> s_Unknown, idx |-> None]

----------------------------------------------------------------------------
(* _get_special *)

\* the innermost loop: the equivalents of one category against one tag
RECURSIVE special_scan_equivs(_, _, _)
special_scan_equivs(release_snippet, equivalents, j) ==
    IF j > Len(equivalents) THEN FALSE
    ELSE IF IsIn(equivalents[j], release_snippet) THEN TRUE
    ELSE special_scan_equivs(release_snippet, equivalents, j + 1)

\* the middle loop: the categories against one tag, in declaration order
RECURSIVE special_scan_categories(_, _)
special_scan_categories(release_snippet, c) ==
    IF c > Len(SPECIAL_DIR_CRITERIA) THEN None
    ELSE IF special_scan_equivs(release_snippet, SPECIAL_DIR_CRITERIA[c].equivalents, 1)
    THEN Some(SPECIAL_DIR_CRITERIA[c].special)
    ELSE special_scan_categories(release_snippet, c + 1)

\* special_scan with the last matching tag winning instead of the first
RECURSIVE special_scan_last(_, _)
special_scan_last(release_info_raw, k) ==
    IF k > Len(release_info_raw) THEN None
    ELSE LET later == special_scan_last(release_info_raw, k + 1)
         IN  IF later # None THEN later
             ELSE special_scan_categories(release_info_raw[k], 1)

\* the outer loop: the tags, left to right; the first match returns
RECURSIVE special_scan(_, _)
special_scan(release_info_raw, k) ==
    IF k > Len(release_info_raw) THEN None
    ELSE LET found == special_scan_categories(release_info_raw[k], 1)
         IN  IF found # None THEN found
             ELSE special_scan(release_info_raw, k + 1)

get_special(release_info_raw) == special_scan(release_info_raw, 1)

\* isinstance(v, str)
IsStr(v) == \A k \in DOMAIN v : v[k] \in STRING

\* the exception _get_special raises, if any: lines 204-206
get_special_raises(release_info_raw) ==
    LET found == special_scan(release_info_raw, 1)
    IN  IF found # None /\ ~IsStr(found[1]) THEN Some("TypeError") ELSE None

----------------------------------------------------------------------------
(* _get_release_info *)

\* re.findall(r"\((.*?)\)", s) from position pos: a group starts at the first
\* "(" that is followed by a ")" with no line break in between ("." does not
\* match a line break), extends to the nearest such ")", and the scan resumes
\* after it
RECURSIVE findall(_, _)
findall(s, pos) ==
    LET close(p) == {e \in (p + 1)..Len(s) : s[e] = ")"}
        matches(p) == /\ s[p] = "("
                      /\ close(p) # {}
                      /\ \A q \in (p + 1)..(SetMin(close(p)) - 1) : s[q] # "\n"
        starts == {p \in pos..Len(s) : matches(p)}
    IN  IF starts = {} THEN << >>
        ELSE LET p == SetMin(starts)
                 e == SetMin(close(p))
             IN  << SubSeq(s, p + 1, e - 1) >> \o findall(s, e + 1)

get_release_info(name) ==
    LET found == findall(name, 1)
        region == get_region(found)
        rest == IF TruthyInt(region.idx) THEN Pop(found, region.idx[1]) ELSE found
    IN  [region_dir |-> region.region_dir,
         region_full |-> region.region_full,
         special |-> get_special(rest),
         extra_info |-> rest]

\* the exception _get_release_info lets through, if any
get_release_info_raises(name) ==
    LET found == findall(name, 1)
    IN  IF get_region_raises(found) # None THEN get_region_raises(found)
        ELSE LET region == get_region(found)
                 rest == IF TruthyInt(region.idx) THEN Pop(found, region.idx[1]) ELSE found
             IN  get_special_raises(rest)

NoReleaseInfo ==
    [region_dir |-> << >>, region_full |-> << >>, special |-> None, extra_info |-> << >>]

----------------------------------------------------------------------------
(* _check_allowed_special and _check_allowed_region *)

\* for entry in entries: if entry in text: return True
RECURSIVE any_entry_in(_, _, _)
any_entry_in(entries, text, j) ==
    IF j > Len(entries) THEN FALSE
    ELSE IF IsIn(entries[j], text) THEN TRUE
    ELSE any_entry_in(entries, text, j + 1)

\* for extra_info in tags: for entry in entries: if entry in extra_info: return True
RECURSIVE any_tag_has_entry(_, _, _)
any_tag_has_entry(tags, entries, k) ==
    IF k > Len(tags) THEN FALSE
    ELSE IF any_entry_in(entries, tags[k], 1) THEN TRUE
    ELSE any_tag_has_entry(tags, entries, k + 1)

\* check_allowed_special with the include list tested before the exclude list
check_allowed_special_include_first(ri, exclude, include) ==
    IF include # << >> THEN any_tag_has_entry(ri.extra_info, include, 1)
    ELSE IF any_tag_has_entry(ri.extra_info, exclude, 1) THEN FALSE
    ELSE TRUE

check_allowed_special(ri, exclude, include) ==
    IF any_tag_has_entry(ri.extra_info, exclude, 1) THEN FALSE
    ELSE IF include # << >> THEN any_tag_has_entry(ri.extra_info, include, 1)
    ELSE TRUE

\* check_allowed_region without the always-allowed regions
check_allowed_region_no_always(ri, exclude, include) ==
    IF any_entry_in(exclude, ri.region_full, 1) THEN FALSE
    ELSE IF include # << >> THEN any_entry_in(include, ri.region_full, 1)
    ELSE TRUE

\* check_allowed_region without the include list
check_allowed_region_no_include(ri, exclude, include) ==
    ~any_entry_in(exclude, ri.region_full, 1)

check_allowed_region(ri, exclude, include) ==
    IF any_entry_in(exclude, ri.region_full, 1) THEN FALSE
    ELSE IF include # << >>
    THEN LET temp_region_list == include \o REGION_ALWAYS_ALLOWED
         IN  \E j \in 1..Len(temp_region_list) : IsIn(temp_region_list[j], ri.region_full)
    ELSE TRUE

----------------------------------------------------------------------------
(* pathlib *)

\* s.split(sep), for a one-character separator
RECURSIVE Split(_, _)
Split(s, sep) ==
    IF \A k \in 1..Len(s) : s[k] # sep THEN << s >>
    ELSE LET k == SetMin({q \in 1..Len(s) : s[q] = sep})
         IN  << SubSeq(s, 1, k - 1) >> \o Split(SubSeq(s, k + 1, Len(s)), sep)

\* sep.join(parts)
RECURSIVE Join(_, _)
Join(parts, sep) ==
    IF parts = << >> THEN << >>
    ELSE IF Len(parts) = 1 THEN parts[1]
    ELSE parts[1] \o << sep >> \o Join(Tail(parts), sep)

IsPathPart(part) == part # << >> /\ part # << "." >>

\* str(Path(s)) on a POSIX system: empty and "." components are dropped, a
\* leading "/" is kept (exactly two leading slashes are kept as "//"), and the
\* empty path is "."
PathStr(s) ==
    LET parts == SelectSeq(Split(s, "/"), IsPathPart)
        lead == IF \A k \in 1..Len(s) : s[k] = "/" THEN Len(s)
                ELSE SetMin({k \in 1..Len(s) : s[k] # "/"}) - 1
        root == IF lead = 0 THEN << >> ELSE IF lead = 2 THEN << "/", "/" >> ELSE << "/" >>
        joined == root \o Join(parts, "/")
    IN  IF joined = << >> THEN << "." >> ELSE joined

\* Path(s).name, for a path as rglob returns it
PathName(s) == LET parts == Split(s, "/") IN parts[Len(parts)]

----------------------------------------------------------------------------
(* _get_files_to_push: the dict files_to_push is a sequence of entries        *)
(* [key, files] in insertion order                                           *)

HasKey(d, key) == \E k \in 1..Len(d) : d[k].key = key

\* d[key], for a key that is present
dict_at(d, key) == d[CHOOSE k \in 1..Len(d) : d[k].key = key].files

\* d.get(key)
dict_get(d, key) == IF HasKey(d, key) THEN Some(dict_at(d, key)) ELSE None

\* d[key] = value: an existing key keeps its position
dict_set(d, key, value) ==
    IF HasKey(d, key)
    THEN [k \in 1..Len(d) |-> IF d[k].key = key THEN [key |-> key, files |-> value] ELSE d[k]]
    ELSE Append(d, [key |-> key, files |-> value])

\* the subfolder with the region always taking precedence
output_dir_region(ri) ==
    IF TruthyStr(Some(ri.region_dir)) THEN ri.region_dir ELSE ri.special[1]

\* lines 266-268: the subfolder is the special category when there is one
output_dir(ri) ==
    IF TruthyStr(ri.special) THEN ri.special[1] ELSE ri.region_dir

\* the append with the list of the key emptied every time
dict_push_reset(d, key, name) ==
    dict_set(d, key, << name >>)

\* lines 271-274: create the list of an unseen key, then append
dict_push(d, key, name) ==
    LET got == dict_get(d, key)
        missing == got = None \/ got[1] = << >>
        d1 == IF missing THEN dict_set(d, key, << >>) ELSE d
    IN  dict_set(d1, key, Append(dict_at(d1, key), name))

\* the loop body admitting a file when either filter admits it
push_file_either(d, name, ri, a_special, a_region, base) ==
    IF a_special \/ a_region
    THEN dict_push(d, PathStr(base \o << "/" >> \o output_dir(ri)), name)
    ELSE d

\* the loop body skipping a filename that some list already holds
push_file_once(d, name, ri, a_special, a_region, base) ==
    IF a_special /\ a_region
       /\ ~\E k \in 1..Len(d) : \E j \in 1..Len(d[k].files) : d[k].files[j] = name
    THEN dict_push(d, PathStr(base \o << "/" >> \o output_dir(ri)), name)
    ELSE d

\* lines 265-274: the part of the loop body that updates files_to_push
push_file(d, name, ri, a_special, a_region, base) ==
    IF a_special /\ a_region
    THEN dict_push(d, PathStr(base \o << "/" >> \o output_dir(ri)), name)
    ELSE d

\* lines 260-274: the loop body applied to the mapping d and one path
classify_file(d, path) ==
    LET name == PathName(path)
        ri == get_release_info(name)
    IN  push_file(d, name, ri,
                  check_allowed_special(ri, special_list_exclude, special_list_include),
                  check_allowed_region(ri, region_list_exclude, region_list_include),
                  remote_dir_full)

\* lines 260-274: the loop over the paths, from the mapping d on
RECURSIVE classify_files(_, _)
classify_files(files, d) ==
    IF files = << >> THEN d
    ELSE classify_files(Tail(files), classify_file(d, Head(files)))

\* lines 258-276: the mapping _get_files_to_push returns for a file list
get_files_to_push(files) == classify_files(files, << >>)

----------------------------------------------------------------------------
(* Inputs *)

s_Rev_1 == <<"R","e","v"," ","1">>
s_Japan_English_Patch ==
    <<"J","a","p","a","n",","," ","E","n","g","l","i","s","h"," ","P","a","t","c","h">>
s_Europe_USA == <<"E","u","r","o","p","e",","," ","U","S","A">>
s_Unl_Demo == <<"U","n","l",","," ","D","e","m","o">>
s_Japan_Rev_1 == <<"J","a","p","a","n",","," ","R","e","v"," ","1">>
s_Japan_Proto == <<"J","a","p","a","n",","," ","P","r","o","t","o">>
s_Japan_Korea == <<"J","a","p","a","n",","," ","K","o","r","e","a">>
s_Patch == <<"P","a","t","c","h">>
s_Rev == <<"R","e","v">>
s_dest == <<"/","d","e","s","t">>
s_snes == <<"s","n","e","s">>
s_dest_snes == <<"/","d","e","s","t","/","s","n","e","s">>

TagSeqs(S, max) == UNION { [1..m -> S] : m \in 0..max }

\* "Game (tag1) (tag2).rom"
MkName(tags) ==
    <<"G","a","m","e">>
    \o Concat([k \in 1..Len(tags) |-> <<" ","(">> \o tags[k] \o <<")">>])
    \o <<".","r","o","m">>

ResolveTags ==
    { s_USA, s_Europe, s_France, s_World, s_Japan_English_Patch, s_Europe_USA,
      s_Rev_1, s_Demo, s_Unl, s_Proto, s_Unl_Demo, s_Japan_Proto, s_Japan_Korea }

\* filenames outside the naming convention: empty, empty group, nested and
\* unbalanced parentheses, a line break inside a group
OddFilenames ==
    { << >>,
      <<"(",")">>,
      <<"(","a"," ","(","b",")"," ","c",")">>,
      <<"(","(">> \o s_USA \o <<")",")">>,
      <<"(">> \o s_USA,
      s_USA \o <<")">>,
      <<")","(">>,
      <<"(">> \o s_USA \o <<")"," ","(">> \o s_Demo,
      <<"(">> \o s_Europe \o <<"(">> \o s_Proto \o <<")">>,
      <<"(","a","\n","b",")">>,
      <<"(">> \o s_USA \o <<"\n",")"," ","(">> \o s_Demo \o <<")">> }

ResolveFilenames == { MkName(t) : t \in TagSeqs(ResolveTags, MaxTags) } \cup OddFilenames

FilterTags ==
    { s_USA, s_Europe, s_World, s_Japan_English_Patch, s_Rev_1, s_Demo, s_Proto,
      s_Europe_USA }

FilterFilenames == { MkName(t) : t \in TagSeqs(FilterTags, MaxFilterTags) }

RegionIncludes == { << >>, << s_USA >>, << s_Japan, s_France >>, << s_Europe >> }

RegionExcludes == { << >>, << s_Europe >>, << s_Patch >>, << s_World >> }

SpecialIncludes == { << >>, << s_Rev >>, << s_Demo, s_Proto >> }

SpecialExcludes == { << >>, << s_Proto >>, << s_Demo, s_Rev >> }

f_USA == MkName(<< s_USA >>)
f_Europe_Demo == MkName(<< s_Europe, s_Demo >>)
f_Japan_Rev_1 == MkName(<< s_Japan_Rev_1 >>)
f_Proto_World == MkName(<< s_Proto, s_World >>)
f_USA_Rev_1 == MkName(<< s_USA, s_Rev_1 >>)
f_sub_USA == <<"s","u","b","/">> \o f_USA

\* the paths the directory enumerator can return
LocalFiles == { f_USA, f_Europe_Demo, f_Japan_Rev_1, f_Proto_World, f_USA_Rev_1, f_sub_USA }

\* rglob returns every file once, in any order
FileLists ==
    { l \in UNION { [1..m -> LocalFiles] : m \in 0..MaxFiles } :
        \A i, j \in 1..Len(l) : i # j => l[i] # l[j] }

TargetDefs ==
    { [type |-> "local", rsync_host |-> << >>, path |-> s_dest],
      [type |-> "local", rsync_host |-> << >>, path |-> s_dest \o << "/" >>] }

RemoteDirs == { s_snes, <<"r","o","m","s","/">> \o s_snes }

----------------------------------------------------------------------------
(* Steps of the loop body of _get_files_to_push *)

\* the locals of the loop body before the first file is classified
NoFile ==
    /\ filename = << >>
    /\ bracket_contents = << >>
    /\ idx = None
    /\ release_info = NoReleaseInfo
    /\ allowed_special = None
    /\ allowed_region = None

\* rsync() has not been called: lines 70-76 with the defaults
NoRsync ==
    /\ dry_run = FALSE
    /\ no_run = FALSE
    /\ rsync_host_str = << >>
    /\ dest_n = 0
    /\ effects = << >>

\* a logger nobody has set up: no handlers, level NOTSET
NoLogger ==
    /\ handlers = << >>
    /\ level = 0
    /\ log_calls = << >>

\* line 261; an exception of the resolvers leaves the loop
GetReleaseInfo ==
    /\ pc = "start"
    /\ bracket_contents' = findall(filename, 1)
    /\ IF get_release_info_raises(filename) # None
       THEN /\ pc' = "raised"
            /\ UNCHANGED << idx, release_info >>
       ELSE /\ pc' = "info"
            /\ idx' = get_region(bracket_contents').idx
            /\ release_info' = get_release_info(filename)
    /\ UNCHANGED << target_def, remote_dir,
                    region_list_include, region_list_exclude, special_list_include,
                    special_list_exclude, remote_dir_full, all_files, n,
                    files_to_push, filename, allowed_special, allowed_region,
                    local_dir, rerun, rsync_inputs, rsync_vars, logger_vars >>

\* line 262
CheckAllowedSpecial ==
    /\ pc = "info"
    /\ pc' = "special"
    /\ allowed_special' =
           Some(check_allowed_special(release_info, special_list_exclude, special_list_include))
    /\ UNCHANGED << target_def, remote_dir,
                    region_list_include, region_list_exclude, special_list_include,
                    special_list_exclude, remote_dir_full, all_files, n,
                    files_to_push, filename, bracket_contents, idx, release_info,
                    allowed_region,
                    local_dir, rerun, rsync_inputs, rsync_vars, logger_vars >>

\* line 263
CheckAllowedRegion ==
    /\ pc = "special"
    /\ pc' = "region"
    /\ allowed_region' =
           Some(check_allowed_region(release_info, region_list_exclude, region_list_include))
    /\ UNCHANGED << target_def, remote_dir,
                    region_list_include, region_list_exclude, special_list_include,
                    special_list_exclude, remote_dir_full, all_files, n,
                    files_to_push, filename, bracket_contents, idx, release_info,
                    allowed_special,
                    local_dir, rerun, rsync_inputs, rsync_vars, logger_vars >>

\* lines 265-274
PushIfAllowed ==
    /\ pc = "region"
    /\ pc' = "pushed"
    /\ files_to_push' = push_file(files_to_push, filename, release_info,
                                  allowed_special[1], allowed_region[1], remote_dir_full)
    /\ UNCHANGED << target_def, remote_dir,
                    region_list_include, region_list_exclude, special_list_include,
                    special_list_exclude, remote_dir_full, all_files, n,
                    filename, bracket_contents, idx, release_info,
                    allowed_special, allowed_region,
                    local_dir, rerun, rsync_inputs, rsync_vars, logger_vars >>

----------------------------------------------------------------------------
(* Resolution of one filename *)

InitResolve ==
    /\ pc = "start"
    /\ filename \in ResolveFilenames
    /\ target_def = [type |-> "local", rsync_host |-> << >>, path |-> s_dest]
    /\ remote_dir = s_snes
    /\ remote_dir_full = PathStr(target_def.path \o << "/" >> \o remote_dir)
    /\ region_list_include = << >>
    /\ region_list_exclude = << >>
    /\ special_list_include = << >>
    /\ special_list_exclude = << >>
    /\ all_files = << >>
    /\ n = 0
    /\ files_to_push = << >>
    /\ bracket_contents = << >>
    /\ idx = None
    /\ release_info = NoReleaseInfo
    /\ allowed_special = None
    /\ allowed_region = None
    /\ local_dir = None
    /\ rerun = FALSE
    /\ rsync_inputs = << >>
    /\ NoRsync
    /\ NoLogger

NextResolve == GetReleaseInfo

SpecResolve == InitResolve /\ [][NextResolve]_vars

----------------------------------------------------------------------------
(* The filters applied to one filename *)

InitFilter ==
    /\ pc = "start"
    /\ filename \in FilterFilenames
    /\ target_def = [type |-> "local", rsync_host |-> << >>, path |-> s_dest]
    /\ remote_dir = s_snes
    /\ remote_dir_full = PathStr(target_def.path \o << "/" >> \o remote_dir)
    /\ region_list_include \in RegionIncludes
    /\ region_list_exclude \in RegionExcludes
    /\ special_list_include \in SpecialIncludes
    /\ special_list_exclude \in SpecialExcludes
    /\ all_files = << >>
    /\ n = 0
    /\ files_to_push = << >>
    /\ bracket_contents = << >>
    /\ idx = None
    /\ release_info = NoReleaseInfo
    /\ allowed_special = None
    /\ allowed_region = None
    /\ local_dir = None
    /\ rerun = FALSE
    /\ rsync_inputs = << >>
    /\ NoRsync
    /\ NoLogger

NextFilter == GetReleaseInfo \/ CheckAllowedSpecial \/ CheckAllowedRegion \/ PushIfAllowed

SpecFilter == InitFilter /\ [][NextFilter]_vars

----------------------------------------------------------------------------
(* SystemSync.__init__ up to the classification of the whole file list *)

SyncRegionIncludes == { << >>, << s_USA >> }

SyncRegionExcludes == { << >>, << s_Europe >> }

SyncSpecialIncludes == { << >>, << s_Demo, s_Rev >> }

SyncSpecialExcludes == { << >>, << s_Proto >> }

\* what local_dir can hold: nothing (it is not a directory) or a file list
LocalDirs == { None } \cup { Some(l) : l \in FileLists }

\* the object after lines 69-96 of __init__
Init ==
    /\ pc = "init"
    /\ target_def \in TargetDefs
    /\ remote_dir \in RemoteDirs
    /\ remote_dir_full = PathStr(target_def.path \o << "/" >> \o remote_dir)
    /\ region_list_include \in SyncRegionIncludes
    /\ region_list_exclude \in SyncRegionExcludes
    /\ special_list_include \in SyncSpecialIncludes
    /\ special_list_exclude \in SyncSpecialExcludes
    /\ all_files = << >>
    /\ n = 0
    /\ files_to_push = << >>
    /\ NoFile
    /\ local_dir \in LocalDirs
    /\ rerun = FALSE
    /\ rsync_inputs = << >>
    /\ NoRsync
    /\ NoLogger

\* _get_file_list: a local_dir that is not a directory leaves all_files as it is
get_file_list(files, dir) == IF dir = None THEN files ELSE dir[1]

\* files_to_classify listing the directory at every call and keeping the
\* files it already had
files_to_classify_extend(files, dir) == files \o get_file_list(<< >>, dir)

\* lines 255-256: the directory is listed only while all_files is empty
files_to_classify(files, dir) ==
    IF files = << >> THEN get_file_list(files, dir) ELSE files

\* lines 255-258: the mapping of a call starts empty
GetFileList ==
    /\ pc = "init"
    /\ pc' = "loop"
    /\ all_files' = files_to_classify(all_files, local_dir)
    /\ files_to_push' = << >>
    /\ n' = 0
    /\ UNCHANGED << target_def, remote_dir,
                    region_list_include, region_list_exclude, special_list_include,
                    special_list_exclude, remote_dir_full,
                    filename, bracket_contents, idx, release_info,
                    allowed_special, allowed_region,
                    local_dir, rerun, rsync_inputs, rsync_vars, logger_vars >>

\* lines 260-274: one iteration of the loop over all_files; an exception of
\* the resolvers leaves the loop
ClassifyFile ==
    /\ pc = "loop"
    /\ n < Len(all_files)
    /\ filename' = PathName(all_files[n + 1])
    /\ bracket_contents' = findall(filename', 1)
    /\ IF get_release_info_raises(filename') # None
       THEN /\ pc' = "raised"
            /\ UNCHANGED << n, idx, release_info, allowed_special, allowed_region,
                            files_to_push >>
       ELSE /\ pc' = pc
            /\ n' = n + 1
            /\ idx' = get_region(bracket_contents').idx
            /\ release_info' = get_release_info(filename')
            /\ allowed_special' =
                   Some(check_allowed_special(release_info', special_list_exclude,
                                              special_list_include))
            /\ allowed_region' =
                   Some(check_allowed_region(release_info', region_list_exclude,
                                             region_list_include))
            /\ files_to_push' = push_file(files_to_push, filename', release_info',
                                          allowed_special'[1], allowed_region'[1],
                                          remote_dir_full)
    /\ UNCHANGED << target_def, remote_dir,
                    region_list_include, region_list_exclude, special_list_include,
                    special_list_exclude, remote_dir_full, all_files,
                    local_dir, rerun, rsync_inputs, rsync_vars, logger_vars >>

\* line 276; line 98 makes the mapping of the call in __init__ rsync_inputs
ReturnFiles ==
    /\ pc = "loop"
    /\ n = Len(all_files)
    /\ pc' = "done"
    /\ rsync_inputs' = IF rerun THEN rsync_inputs ELSE files_to_push
    /\ UNCHANGED << target_def, remote_dir,
                    region_list_include, region_list_exclude, special_list_include,
                    special_list_exclude, remote_dir_full, all_files, n, files_to_push,
                    filename, bracket_contents, idx, release_info,
                    allowed_special, allowed_region,
                    local_dir, rerun, rsync_vars, logger_vars >>

\* _get_files_to_push is called once more on the constructed object
CallAgain ==
    /\ pc = "done"
    /\ ~rerun
    /\ rerun' = TRUE
    /\ pc' = "init"
    /\ UNCHANGED << target_def, remote_dir,
                    region_list_include, region_list_exclude, special_list_include,
                    special_list_exclude, remote_dir_full, all_files, n, files_to_push,
                    filename, bracket_contents, idx, release_info,
                    allowed_special, allowed_region,
                    local_dir, rsync_inputs, rsync_vars, logger_vars >>

Next == GetFileList \/ ClassifyFile \/ ReturnFiles \/ CallAgain

Spec == Init /\ [][Next]_vars

----------------------------------------------------------------------------
(* SystemSync.rsync *)

s_rsync == <<"r","s","y","n","c">>
s_hv == <<"-","h","v">>
s_n == <<"n">>
s_info_progress2 == <<"-","-","i","n","f","o","=","p","r","o","g","r","e","s","s","2">>
s_size_only == <<"-","-","s","i","z","e","-","o","n","l","y">>
s_files_from == <<"-","-","f","i","l","e","s","-","f","r","o","m","=">>
s_mkdir == <<"m","k","d","i","r">>
s_p == <<"-","p">>
s_ssh == <<"s","s","h">>
s_tmp == <<"/","t","m","p">>
s_rsync_fl == <<"r","s","y","n","c","_","f","l">>
s_txt == <<".","t","x","t">>

\* the path of local_dir and the host of a remote target
s_roms == <<"/","r","o","m","s">>
s_nas == <<"n","a","s">>

\* dest_folder.replace("/", "_")
ReplaceSlash(str) == [k \in 1..Len(str) |-> IF str[k] = "/" THEN "_" ELSE str[k]]

\* lines 113-114: the path of the file list of one destination
rsync_file_list(dest_folder) ==
    s_tmp \o << "/" >> \o s_rsync_fl \o ReplaceSlash(dest_folder) \o s_txt

\* lines 120-122
rsync_options(dry) == IF dry THEN s_hv \o s_n ELSE s_hv

\* lines 124-126: a non-empty rsync_host_str is put before the destination
rsync_dest(host, dest_folder) ==
    IF host # << >> THEN host \o << ":" >> \o dest_folder ELSE dest_folder

\* lines 128-136
rsync_cmd(dry, host, dest_folder) ==
    << s_rsync, rsync_options(dry), s_info_progress2, s_size_only,
       s_files_from \o rsync_file_list(dest_folder), s_roms,
       rsync_dest(host, dest_folder) >>

\* lines 138-140
mkdir_command(host, dest_folder) ==
    IF host # << >> THEN << s_ssh, host, s_mkdir, s_p, dest_folder >>
    ELSE << s_mkdir, s_p, dest_folder >>

\* what one iteration does that can be observed: a log record, the file list
\* written, or a command run with its exit status
Effect(op, dest_folder, arg, status) ==
    [op |-> op, dest |-> dest_folder, arg |-> arg, status |-> status]

\* the exit statuses a command can end with
ExitStatuses == { 0, 1 }

\* run_effects creating the destination directory in a dry run too
run_effects_always_mkdir(dry, host, dest_folder, mkdir_status, rsync_status) ==
    << Effect("log rsync command", dest_folder, rsync_cmd(dry, host, dest_folder), 0),
       Effect("log mkdir command", dest_folder, mkdir_command(host, dest_folder), 0),
       Effect("log running", dest_folder, << >>, 0),
       Effect("log creating", dest_folder, mkdir_command(host, dest_folder), 0),
       Effect("run", dest_folder, mkdir_command(host, dest_folder), mkdir_status),
       Effect("run", dest_folder, rsync_cmd(dry, host, dest_folder), rsync_status),
       Effect("log completed", dest_folder, << >>, 0) >>

\* lines 142-153: the part of an iteration that no_run switches off
run_effects(dry, host, dest_folder, mkdir_status, rsync_status) ==
    << Effect("log rsync command", dest_folder, rsync_cmd(dry, host, dest_folder), 0),
       Effect("log mkdir command", dest_folder, mkdir_command(host, dest_folder), 0),
       Effect("log running", dest_folder, << >>, 0) >>
    \o (IF ~dry
        THEN << Effect("log creating", dest_folder, mkdir_command(host, dest_folder), 0),
                Effect("run", dest_folder, mkdir_command(host, dest_folder), mkdir_status) >>
        ELSE << >>)
    \o << Effect("run", dest_folder, rsync_cmd(dry, host, dest_folder), rsync_status),
          Effect("log completed", dest_folder, << >>, 0) >>

\* lines 109-153: one iteration of the loop over rsync_inputs
dest_effects(dry, norun, host, dest_folder, files, mkdir_status, rsync_status) ==
    << Effect("log syncing", dest_folder, << >>, 0),
       Effect("log file list", dest_folder, rsync_file_list(dest_folder), 0),
       Effect("write", dest_folder, files, 0) >>
    \o (IF ~norun
        THEN run_effects(dry, host, dest_folder, mkdir_status, rsync_status)
        ELSE << >>)

\* the files the directory enumerator can return when rsync() is modelled
RsyncFiles == { f_USA, f_Europe_Demo, f_Japan_Rev_1, f_sub_USA }

RsyncFileLists ==
    { l \in UNION { [1..m -> RsyncFiles] : m \in 0..MaxFiles } :
        \A i, j \in 1..Len(l) : i # j => l[i] # l[j] }

RsyncTargetDefs ==
    { [type |-> "local", rsync_host |-> << >>, path |-> s_dest],
      [type |-> "remote", rsync_host |-> s_nas, path |-> s_dest] }

\* the object after __init__: the file list is classified into rsync_inputs
InitRsync ==
    /\ pc = "rsync"
    /\ target_def \in RsyncTargetDefs
    /\ remote_dir = s_snes
    /\ remote_dir_full = PathStr(target_def.path \o << "/" >> \o remote_dir)
    /\ region_list_include = << >>
    /\ region_list_exclude = << >>
    /\ special_list_include = << >>
    /\ special_list_exclude = << >>
    /\ local_dir \in { None } \cup { Some(l) : l \in RsyncFileLists }
    /\ all_files = files_to_classify(<< >>, local_dir)
    /\ n = Len(all_files)
    /\ files_to_push = get_files_to_push(all_files)
    /\ rsync_inputs = files_to_push
    /\ NoFile
    /\ rerun = FALSE
    /\ dry_run \in BOOLEAN
    /\ no_run \in BOOLEAN
    /\ rsync_host_str = IF target_def.type = "remote" THEN target_def.rsync_host ELSE << >>
    /\ dest_n = 0
    /\ effects = << >>
    /\ NoLogger

\* lines 109-153: the next destination of rsync_inputs; subprocess.run does
\* not look at the exit status of the command
RsyncDest ==
    /\ pc = "rsync"
    /\ dest_n < Len(rsync_inputs)
    /\ dest_n' = dest_n + 1
    /\ \E mkdir_status \in ExitStatuses, rsync_status \in ExitStatuses :
          effects' = effects \o dest_effects(dry_run, no_run, rsync_host_str,
                                             rsync_inputs[dest_n + 1].key,
                                             rsync_inputs[dest_n + 1].files,
                                             mkdir_status, rsync_status)
    /\ UNCHANGED << pc, target_def, remote_dir,
                    region_list_include, region_list_exclude, special_list_include,
                    special_list_exclude, remote_dir_full, all_files, n, files_to_push,
                    filename, bracket_contents, idx, release_info,
                    allowed_special, allowed_region,
                    local_dir, rerun, rsync_inputs, dry_run, no_run, rsync_host_str,
                    logger_vars >>

\* line 155
RsyncReturn ==
    /\ pc = "rsync"
    /\ dest_n = Len(rsync_inputs)
    /\ pc' = "synced"
    /\ UNCHANGED << target_def, remote_dir,
                    region_list_include, region_list_exclude, special_list_include,
                    special_list_exclude, remote_dir_full, all_files, n, files_to_push,
                    filename, bracket_contents, idx, release_info,
                    allowed_special, allowed_region,
                    local_dir, rerun, rsync_inputs, rsync_vars, logger_vars >>

NextRsync == RsyncDest \/ RsyncReturn

SpecRsync == InitRsync /\ [][NextRsync]_vars

----------------------------------------------------------------------------
(* logger.setup_logger *)

TRACE_LEVEL_NUM == 5

s_TRACE == <<"T","R","A","C","E">>
s_DEBUG == <<"D","E","B","U","G">>
s_INFO == <<"I","N","F","O">>
s_WARNING == <<"W","A","R","N","I","N","G">>
s_ERROR == <<"E","R","R","O","R">>
s_CRITICAL == <<"C","R","I","T","I","C","A","L">>

LOG_LEVELS == << s_TRACE, s_DEBUG, s_INFO, s_WARNING, s_ERROR, s_CRITICAL >>

LowerCase ==
    <<"a","b","c","d","e","f","g","h","i","j","k","l","m",
      "n","o","p","q","r","s","t","u","v","w","x","y","z">>

UpperCase ==
    <<"A","B","C","D","E","F","G","H","I","J","K","L","M",
      "N","O","P","Q","R","S","T","U","V","W","X","Y","Z">>

\* str.upper()
Upper(str) ==
    [k \in 1..Len(str) |->
        IF \E i \in 1..Len(LowerCase) : LowerCase[i] = str[k]
        THEN UpperCase[CHOOSE i \in 1..Len(LowerCase) : LowerCase[i] = str[k]]
        ELSE str[k]]

\* the number logging gives a level name of LOG_LEVELS
LevelNumber(name) ==
    CASE name = s_TRACE -> TRACE_LEVEL_NUM
      [] name = s_DEBUG -> 10
      [] name = s_INFO -> 20
      [] name = s_WARNING -> 30
      [] name = s_ERROR -> 40
      [] name = s_CRITICAL -> 50

\* a log_level argument: a str or an int
StrLevel(str) == [is_str |-> TRUE, str |-> str, int |-> 0]

IntLevel(i) == [is_str |-> FALSE, str |-> << >>, int |-> i]

\* _set_log_level: the level the logger is given
set_log_level(log_level) ==
    IF log_level.is_str
    THEN IF ~InList(Upper(log_level.str), LOG_LEVELS) THEN LevelNumber(s_INFO)
         ELSE LevelNumber(Upper(log_level.str))
    ELSE log_level.int

ConsoleHandler == [class |-> "StreamHandler", path |-> ""]

FileHandler(log_path) == [class |-> "RotatingFileHandler", path |-> log_path]

\* isinstance(handler, logging.FileHandler)
IsFileHandler(handler) == handler.class = "RotatingFileHandler"

\* isinstance(handler, logging.StreamHandler): FileHandler is a subclass
IsStreamHandler(handler) == handler.class \in { "StreamHandler", "RotatingFileHandler" }

\* has_file_handler never seeing a file handler
has_file_handler_never(hs) == FALSE

has_file_handler(hs) == \E k \in 1..Len(hs) : IsFileHandler(hs[k])

has_console_handler(hs) == \E k \in 1..Len(hs) : IsStreamHandler(hs[k])

\* the exception RotatingFileHandler(log_path) ends with, if any
open_log_file(log_path) ==
    CASE log_path = "logs" -> Some("IsADirectoryError")
      [] log_path = "/var/log/app.log" -> Some("PermissionError")
      [] OTHER -> None

\* the log_level and log_path arguments of the calls
LogLevels ==
    { StrLevel(s_INFO), StrLevel(<<"d","e","b","u","g">>), StrLevel(s_TRACE),
      StrLevel(<<"l","o","u","d">>), IntLevel(10), IntLevel(50) }

LogPaths ==
    { None, Some("app.log"), Some("other.log"), Some("logs"), Some("/var/log/app.log") }

\* a logger as logging.getLogger(name) first returns it
InitLogger ==
    /\ pc = "logger"
    /\ target_def = [type |-> "local", rsync_host |-> << >>, path |-> s_dest]
    /\ remote_dir = s_snes
    /\ remote_dir_full = PathStr(target_def.path \o << "/" >> \o remote_dir)
    /\ region_list_include = << >>
    /\ region_list_exclude = << >>
    /\ special_list_include = << >>
    /\ special_list_exclude = << >>
    /\ all_files = << >>
    /\ n = 0
    /\ files_to_push = << >>
    /\ NoFile
    /\ local_dir = None
    /\ rerun = FALSE
    /\ rsync_inputs = << >>
    /\ NoRsync
    /\ NoLogger

\* setup_logger(log_level, log_path, in_logger): the console handler, the
\* level, then the file handler, whose constructor can raise
SetupLogger ==
    /\ pc = "logger"
    /\ Len(log_calls) < MaxCalls
    /\ \E log_level \in LogLevels, log_path \in LogPaths :
          LET with_console == IF ~has_console_handler(handlers)
                              THEN Append(handlers, ConsoleHandler)
                              ELSE handlers
              opening == ~has_file_handler(with_console) /\ log_path # None
              raised == IF opening THEN open_log_file(log_path[1]) ELSE None
          IN  /\ level' = set_log_level(log_level)
              /\ handlers' = IF opening /\ raised = None
                             THEN Append(with_console, FileHandler(log_path[1]))
                             ELSE with_console
              /\ log_calls' = Append(log_calls, [log_level |-> log_level,
                                                 log_path |-> log_path,
                                                 raised |-> raised])
    /\ UNCHANGED << pc, target_def, remote_dir,
                    region_list_include, region_list_exclude, special_list_include,
                    special_list_exclude, remote_dir_full, all_files, n, files_to_push,
                    filename, bracket_contents, idx, release_info,
                    allowed_special, allowed_region,
                    local_dir, rerun, rsync_inputs, rsync_vars >>

NextLogger == SetupLogger

SpecLogger == InitLogger /\ [][NextLogger]_vars

----------------------------------------------------------------------------
(* Properties *)

Elems(list) == { list[k] : k \in 1..Len(list) }

\* a ReleaseInfo has been computed for filename
InfoKnown ==
    \/ pc \in {"info", "special", "region", "pushed"}
    \/ pc \in {"loop", "done"} /\ n > 0

\* positions of the tags that equal a region-vocabulary entry
ExactHits(tags) == { k \in 1..Len(tags) : tags[k] \in Elems(REGION_LIST) }

\* positions of the tags that contain a region-vocabulary entry
PartialHits(tags) ==
    { k \in 1..Len(tags) : \E r \in Elems(REGION_LIST) : IsIn(r, tags[k]) }

\* tags without the element at index i (counted from 0)
WithoutIndex(tags, i) ==
    [k \in 1..(Len(tags) - 1) |-> IF k <= i THEN tags[k] ELSE tags[k + 1]]

\* C1: whenever the Region Resolver matched a tag at index i (i = 0 included),
\* extra_info is the extracted tag sequence without the element at index i;
\* tags ["USA", "Rev 1"] give region USA and extra_info ["Rev 1"].
C1_MatchedTagRemoved ==
    InfoKnown /\ idx # None =>
        /\ release_info.extra_info = WithoutIndex(bracket_contents, idx[1])
        /\ bracket_contents = << s_USA, s_Rev_1 >> =>
              /\ release_info.region_dir = s_USA
              /\ release_info.region_full = s_USA
              /\ release_info.extra_info = << s_Rev_1 >>

\* C2: when some tag equals a vocabulary entry, the rightmost such tag is
\* region_dir and region_full, and its position is the returned index.
C2_RightmostExactWins ==
    InfoKnown /\ ExactHits(bracket_contents) # {} =>
        LET m == SetMax(ExactHits(bracket_contents))
        IN  /\ release_info.region_dir = bracket_contents[m]
            /\ release_info.region_full = bracket_contents[m]
            /\ idx = Some(m - 1)

C2_Witness ==
    /\ pc = "info"
    /\ bracket_contents = << s_Europe, s_France >>
    /\ release_info.region_dir = s_France
    /\ idx = Some(1)

\* C3: an exact match anywhere beats every partial match; without an exact
\* match, the rightmost tag containing a vocabulary entry is region_full, its
\* position is the index, and region_dir is a vocabulary entry inside it.
C3_PartialOnlyWithoutExact ==
    InfoKnown =>
        /\ ExactHits(bracket_contents) # {} =>
              /\ idx # None
              /\ idx[1] + 1 \in ExactHits(bracket_contents)
              /\ release_info.region_full = bracket_contents[idx[1] + 1]
        /\ ExactHits(bracket_contents) = {} /\ PartialHits(bracket_contents) # {} =>
              LET m == SetMax(PartialHits(bracket_contents))
              IN  /\ release_info.region_full = bracket_contents[m]
                  /\ release_info.region_dir \in Elems(REGION_LIST)
                  /\ IsIn(release_info.region_dir, bracket_contents[m])
                  /\ idx = Some(m - 1)

C3_Witness ==
    /\ pc = "info"
    /\ bracket_contents = << s_Rev_1, s_Japan_English_Patch >>
    /\ release_info.region_dir = s_Japan
    /\ release_info.region_full = s_Japan_English_Patch
    /\ idx = Some(1)

\* C4: when no tag equals or contains a vocabulary entry (an empty tag
\* sequence included), the region is Unknown/Unknown with no index and
\* extra_info is the whole extracted tag sequence.
C4_UnknownWhenNoMatch ==
    InfoKnown /\ PartialHits(bracket_contents) = {} =>
        /\ release_info.region_dir = s_Unknown
        /\ release_info.region_full = s_Unknown
        /\ idx = None
        /\ release_info.extra_info = bracket_contents

C4_Witness ==
    /\ pc = "info"
    /\ bracket_contents = << >>
    /\ release_info.region_dir = s_Unknown
    /\ release_info.extra_info = << >>

\* the (tag, category, equivalent) positions where the equivalent is inside the tag
SpecialTriples(tags) ==
    { t \in (1..Len(tags)) \X (1..Len(SPECIAL_DIR_CRITERIA)) \X (1..3) :
        /\ t[3] <= Len(SPECIAL_DIR_CRITERIA[t[2]].equivalents)
        /\ IsIn(SPECIAL_DIR_CRITERIA[t[2]].equivalents[t[3]], tags[t[1]]) }

\* t comes no later than u in the scan order tags, categories, equivalents
ScanLeq(t, u) ==
    \/ t[1] < u[1]
    \/ t[1] = u[1] /\ t[2] < u[2]
    \/ t[1] = u[1] /\ t[2] = u[2] /\ t[3] <= u[3]

\* C5: the special category is that of the first (tag, category, equivalent)
\* triple in scan order whose equivalent is a substring of the tag, and none
\* when there is no such triple.
C5_FirstSpecialWins ==
    InfoKnown =>
        LET T == SpecialTriples(release_info.extra_info)
        IN  IF T = {} THEN release_info.special = None
            ELSE LET first == CHOOSE t \in T : \A u \in T : ScanLeq(t, u)
                 IN  release_info.special = Some(SPECIAL_DIR_CRITERIA[first[2]].special)

C5_Witness ==
    /\ pc = "info"
    /\ release_info.extra_info = << s_Proto, s_Demo >>
    /\ release_info.special = Some(s_Unreleased)

\* C6: the region filter rejects when region_full contains an exclude entry;
\* otherwise with a non-empty include list it admits exactly when region_full
\* contains an entry of include + {World, Unknown}; otherwise it admits.
C6_RegionFilterDecision ==
    pc \in {"region", "pushed"} =>
        LET full == release_info.region_full
            expected ==
                IF \E e \in Elems(region_list_exclude) : IsIn(e, full) THEN FALSE
                ELSE IF region_list_include # << >>
                THEN \E e \in Elems(region_list_include) \cup {s_World, s_Unknown} : IsIn(e, full)
                ELSE TRUE
        IN  /\ allowed_region = Some(expected)
            /\ region_list_include = << s_USA >> /\ full = s_Europe => allowed_region = Some(FALSE)
            /\ region_list_include = << s_USA >> /\ region_list_exclude = << >> /\ full = s_World
                  => allowed_region = Some(TRUE)

C6_Witness ==
    /\ pc = "region"
    /\ region_list_include = << s_USA >>
    /\ region_list_exclude = << >>
    /\ release_info.region_full = s_World
    /\ allowed_region = Some(TRUE)

\* some tag of extra_info contains an entry of the list
TagHasEntry(list) ==
    \E t \in Elems(release_info.extra_info) : \E e \in Elems(list) : IsIn(e, t)

\* C7: the special filter rejects when a tag of extra_info contains an exclude
\* entry; otherwise with a non-empty include list it admits exactly when a tag
\* contains an include entry (no tags: rejected); otherwise it admits.  A file
\* with an excluded tag is not pushed whatever the region filter decided.
C7_SpecialFilterDecision ==
    /\ pc \in {"special", "region", "pushed"} =>
          LET expected ==
                  IF TagHasEntry(special_list_exclude) THEN FALSE
                  ELSE IF special_list_include # << >> THEN TagHasEntry(special_list_include)
                  ELSE TRUE
          IN  /\ allowed_special = Some(expected)
              /\ special_list_include # << >> /\ release_info.extra_info = << >>
                    => allowed_special = Some(FALSE)
    /\ pc = "pushed" /\ TagHasEntry(special_list_exclude) => files_to_push = << >>

C7_Witness ==
    /\ pc = "pushed"
    /\ special_list_exclude = << s_Proto >>
    /\ s_Proto \in Elems(release_info.extra_info)
    /\ allowed_region = Some(TRUE)
    /\ allowed_special = Some(FALSE)
    /\ files_to_push = << >>

\* the names of the files classified so far, in input order
Names == [k \in 1..n |-> PathName(all_files[k])]

\* both filters admit the file of this name
Admitted(name) ==
    LET ri == get_release_info(name)
    IN  /\ check_allowed_special(ri, special_list_exclude, special_list_include)
        /\ check_allowed_region(ri, region_list_exclude, region_list_include)

CountIn(list, x) == Cardinality({ k \in 1..Len(list) : list[k] = x })

RECURSIVE SumLen(_)
SumLen(d) == IF d = << >> THEN 0 ELSE Len(Head(d).files) + SumLen(Tail(d))

\* C8: a name is in the mapping iff both filters admit it, once per
\* occurrence in the input and under one key only; the number of entries of
\* the mapping is the number of admitted input files.
C8_MappingIsAdmittedFiles ==
    pc \in {"loop", "done"} =>
        /\ \A name \in Elems(Names) :
              LET keys == { k \in 1..Len(files_to_push) :
                              CountIn(files_to_push[k].files, name) > 0 }
              IN  IF Admitted(name)
                  THEN /\ Cardinality(keys) = 1
                       /\ \A k \in keys :
                             CountIn(files_to_push[k].files, name) = CountIn(Names, name)
                  ELSE keys = {}
        /\ \A k \in 1..Len(files_to_push) :
              Elems(files_to_push[k].files) \subseteq Elems(Names)
        /\ \A i, j \in 1..Len(files_to_push) :
              files_to_push[i].key = files_to_push[j].key => i = j
        /\ SumLen(files_to_push) = Cardinality({ k \in 1..n : Admitted(Names[k]) })

C8_Witness ==
    /\ pc = "done"
    /\ n = 3
    /\ SumLen(files_to_push) = 2
    /\ \E k \in 1..Len(files_to_push) : files_to_push[k].files = << f_USA, f_USA >>

\* a joined with b as path components
JoinPath(a, b) == IF a # << >> /\ a[Len(a)] = "/" THEN a \o b ELSE a \o << "/" >> \o b

\* C9: every file of the mapping is under base/remote_dir/special when it has
\* a special category and under base/remote_dir/region_dir otherwise.
C9_DestinationKey ==
    pc \in {"loop", "done"} =>
        /\ \A k \in 1..Len(files_to_push) : \A name \in Elems(files_to_push[k].files) :
              LET ri == get_release_info(name)
                  sub == IF ri.special # None THEN ri.special[1] ELSE ri.region_dir
              IN  files_to_push[k].key = JoinPath(JoinPath(target_def.path, remote_dir), sub)
        /\ ( /\ n = 3
             /\ remote_dir_full = s_dest_snes
             /\ all_files = << f_USA, f_Europe_Demo, f_Japan_Rev_1 >>
             /\ region_list_include = << >> /\ region_list_exclude = << >>
             /\ special_list_include = << >> /\ special_list_exclude = << >> )
           => files_to_push =
                << [key |-> s_dest_snes \o << "/" >> \o s_USA, files |-> << f_USA >>],
                   [key |-> s_dest_snes \o << "/" >> \o s_Demo, files |-> << f_Europe_Demo >>],
                   [key |-> s_dest_snes \o << "/" >> \o s_Japan, files |-> << f_Japan_Rev_1 >>] >>

C9_Witness ==
    /\ pc = "done"
    /\ remote_dir_full = s_dest_snes
    /\ all_files = << f_USA, f_Europe_Demo, f_Japan_Rev_1 >>
    /\ region_list_include = << >> /\ region_list_exclude = << >>
    /\ special_list_include = << >> /\ special_list_exclude = << >>
    /\ Len(files_to_push) = 3
    /\ files_to_push[2].files = << f_Europe_Demo >>

IsPrefix(a, b) == Len(a) <= Len(b) /\ SubSeq(b, 1, Len(a)) = a

\* every list of the mapping is the input names routed to it, in input order
ListsInInputOrder ==
    pc \in {"loop", "done"} =>
        \A k \in 1..Len(files_to_push) :
            files_to_push[k].files =
                SelectSeq(Names, LAMBDA name : name \in Elems(files_to_push[k].files))

\* a step keeps every key and extends its list; a new key starts with one file
ListsOnlyGrow ==
    pc = "loop" =>
        /\ Len(files_to_push) <= Len(files_to_push') /\ Len(files_to_push') <= Len(files_to_push) + 1
        /\ \A k \in 1..Len(files_to_push) :
              /\ files_to_push'[k].key = files_to_push[k].key
              /\ IsPrefix(files_to_push[k].files, files_to_push'[k].files)
        /\ \A k \in (Len(files_to_push) + 1)..Len(files_to_push') :
              files_to_push'[k].files = << filename' >>

\* C10: within every destination list the filenames keep the relative order of
\* the input; a list is created when the first file routed to it is seen and
\* is never reset afterwards.
C10_FirstSeenOrder == [] ListsInInputOrder /\ [][ListsOnlyGrow]_vars

C10_Witness ==
    /\ pc = "done"
    /\ all_files = << f_USA_Rev_1, f_Europe_Demo, f_USA >>
    /\ Len(files_to_push) = 2
    /\ files_to_push[1].files = << f_USA_Rev_1, f_USA >>

\* C11: whenever the region was matched from a tag, no element of extra_info
\* equals region_full, the tag the match consumed; this includes a match on
\* the first tag and a tag text that occurs more than once.
C11_ConsumedTagNotInExtraInfo ==
    InfoKnown /\ idx # None =>
        release_info.region_full \notin Elems(release_info.extra_info)

\* C12: the special category is resolved from the tags other than the one the
\* Region Resolver consumed; a single tag that partially matches a region and
\* contains "Proto" gives no special category.
C12_SpecialFromRemainingTags ==
    InfoKnown =>
        /\ release_info.special =
              get_special(IF idx = None THEN bracket_contents
                          ELSE WithoutIndex(bracket_contents, idx[1]))
        /\ bracket_contents = << s_Japan_Proto >> => release_info.special = None


\* the contents of the parenthesized groups of s from position pos on: a group
\* starts at the first "(" that has a ")" after it and ends at the nearest one
RECURSIVE Groups(_, _)
Groups(s, pos) ==
    LET closing(p) == { e \in (p + 1)..Len(s) : s[e] = ")" }
        opening == { p \in pos..Len(s) : s[p] = "(" /\ closing(p) # {} }
    IN  IF opening = {} THEN << >>
        ELSE LET p == SetMin(opening)
                 e == SetMin(closing(p))
             IN  << SubSeq(s, p + 1, e - 1) >> \o Groups(s, e + 1)

\* C13: the extracted sequence is the contents of every parenthesized group of
\* the filename, left to right, each "(" paired with the nearest following ")"
\* and the scan resuming after it; "(a (b) c)" gives the single tag "a (b" and
\* a filename without a complete group gives the empty sequence.
C13_TagsAreGroupContents ==
    InfoKnown =>
        /\ bracket_contents = Groups(filename, 1)
        /\ filename = <<"(","a"," ","(","b",")"," ","c",")">> =>
              bracket_contents = << <<"a"," ","(","b">> >>

\* C14: no filename makes the classification raise: neither the TypeError of
\* the Special Resolver nor a read of the unassigned partial-match result
\* happens, and a ReleaseInfo is returned; without any tag that names a region
\* or a special category it is region "Unknown" with no special.
C14_NeverRaises ==
    /\ pc # "raised"
    /\ pc = "start" => get_release_info_raises(filename) = None
    /\ InfoKnown /\ PartialHits(bracket_contents) = {}
                 /\ SpecialTriples(bracket_contents) = {} =>
          /\ release_info.region_dir = s_Unknown
          /\ release_info.special = None

C14_Witness ==
    /\ pc = "info"
    /\ filename = <<"(",")">>
    /\ bracket_contents = << << >> >>
    /\ release_info.region_dir = s_Unknown
    /\ release_info.special = None

\* C15: region_dir is never empty and always an entry of the region
\* vocabulary, which holds "Unknown"; special is absent or one of Demo,
\* Aftermarket, Unlicensed, Unreleased.
C15_ResultVocabulary ==
    /\ s_Unknown \in Elems(REGION_LIST)
    /\ InfoKnown =>
          /\ release_info.region_dir # << >>
          /\ release_info.region_dir \in Elems(REGION_LIST)
          /\ release_info.special \in
                { None, Some(s_Demo), Some(s_Aftermarket), Some(s_Unlicensed),
                  Some(s_Unreleased) }

C15_Witness ==
    /\ pc = "info"
    /\ bracket_contents = << s_Japan_English_Patch, s_Unl >>
    /\ release_info.region_dir = s_Japan
    /\ release_info.special = Some(s_Unlicensed)

\* C16: a second classification on the same object, with the same file list,
\* rules and vocabularies, ends with the mapping of the first one: the same
\* keys in the same order and the same filenames in the same order in every
\* list; nothing the first run left behind changes the second.
C16_ClassifyTwiceSame ==
    pc = "done" /\ rerun =>
        /\ files_to_push = rsync_inputs
        /\ local_dir # None => all_files = local_dir[1]

C16_Witness ==
    /\ pc = "done"
    /\ rerun
    /\ Len(rsync_inputs) = 2
    /\ files_to_push = rsync_inputs
    /\ \E k \in 1..Len(files_to_push) : Len(files_to_push[k].files) = 2

\* the files the mapping m holds under key, when it has the key
FilesUnder(m, key) == IF HasKey(m, key) THEN dict_at(m, key) ELSE << >>

\* the per-key concatenation of two mappings: the keys of a with the files of
\* a followed by those of b, then the keys only b has
MergeMappings(a, b) ==
    [k \in 1..Len(a) |-> [key |-> a[k].key,
                          files |-> a[k].files \o FilesUnder(b, a[k].key)]]
    \o SelectSeq(b, LAMBDA e : ~HasKey(a, e.key))

\* C17: however the file list is cut into a front part A and a back part B,
\* its mapping is the per-key concatenation of the mapping of A and the
\* mapping of B: no file's admission or destination depends on the other
\* files or on their order.
C17_ConcatenationOfMappings ==
    pc = "done" =>
        \A k \in 0..Len(all_files) :
            files_to_push =
                MergeMappings(get_files_to_push(SubSeq(all_files, 1, k)),
                              get_files_to_push(SubSeq(all_files, k + 1, Len(all_files))))

C17_Witness ==
    /\ pc = "done"
    /\ Len(all_files) = 3
    /\ Len(files_to_push) = 2
    /\ files_to_push =
          MergeMappings(get_files_to_push(SubSeq(all_files, 1, 1)),
                        get_files_to_push(SubSeq(all_files, 2, 3)))
    /\ HasKey(get_files_to_push(SubSeq(all_files, 2, 3)), files_to_push[1].key)
    /\ Len(files_to_push[1].files) = 2

\* positions in REGION_LIST of the entries found inside the tag
EntriesInside(tag) == { j \in 1..Len(REGION_LIST) : IsIn(REGION_LIST[j], tag) }

\* C20: without an exact match, region_dir is the earliest-declared vocabulary
\* entry among those found inside the rightmost tag that holds any; the tag
\* "Europe, USA" gives USA and the tag "Japan, Korea" gives Japan.
C20_EarliestEntryOfWinningTag ==
    InfoKnown /\ ExactHits(bracket_contents) = {} /\ PartialHits(bracket_contents) # {} =>
        LET tag == bracket_contents[SetMax(PartialHits(bracket_contents))]
        IN  /\ release_info.region_dir = REGION_LIST[SetMin(EntriesInside(tag))]
            /\ tag = s_Europe_USA => release_info.region_dir = s_USA
            /\ tag = s_Japan_Korea => release_info.region_dir = s_Japan

C20_Witness ==
    /\ pc = "info"
    /\ bracket_contents = << s_Europe_USA, s_Japan_Korea >>
    /\ release_info.region_dir = s_Japan
    /\ release_info.region_full = s_Japan_Korea

\* C18: with no_run set, whatever dry_run is, rsync() runs no command, neither
\* mkdir nor rsync, and when it returns the rsync command of every destination
\* of the plan has been logged.
C18_NoRunOnlyPrints ==
    no_run =>
        /\ \A e \in 1..Len(effects) : effects[e].op # "run"
        /\ pc = "synced" =>
              \A k \in 1..Len(rsync_inputs) :
                  \E e \in 1..Len(effects) :
                      /\ effects[e].op = "log rsync command"
                      /\ effects[e].arg =
                            rsync_cmd(dry_run, rsync_host_str, rsync_inputs[k].key)

\* the number of handlers of the logger that satisfy Is
HandlerCount(Is(_)) == Cardinality({ k \in 1..Len(handlers) : Is(handlers[k]) })

IsConsoleOnly(handler) == IsStreamHandler(handler) /\ ~IsFileHandler(handler)

Acts == SelectSeq(effects, LAMBDA e : e.op \in { "write", "run" })

\* a run of rsync
IsRsyncRun(e) == e.op = "run" /\ e.arg[1] = s_rsync

\* a run of mkdir -p on dest_folder, directly or through ssh
IsMkdirRun(e, dest_folder) ==
    /\ e.op = "run"
    /\ \/ SubSeq(e.arg, 1, 2) = << s_mkdir, s_p >>
       \/ e.arg[1] = s_ssh /\ SubSeq(e.arg, 3, 4) = << s_mkdir, s_p >>
    /\ e.arg[Len(e.arg)] = dest_folder

\* C21: with no_run unset the destinations are handled in the insertion order
\* of the plan; for each one the file list is written first and exactly one
\* rsync is run after it.  Without dry_run a mkdir -p of the destination is
\* run between the two; with dry_run no mkdir is run at all and every rsync
\* carries the option letter n.  Whatever the exit statuses were, rsync()
\* returns only after the last destination.
C21_CommandSequence ==
    ~no_run =>
        LET per == IF dry_run THEN 2 ELSE 3
        IN  /\ Len(Acts) = per * dest_n
            /\ \A k \in 1..dest_n :
                  LET first == per * (k - 1) + 1
                      last == per * k
                  IN  /\ Acts[first].op = "write"
                      /\ Acts[first].dest = rsync_inputs[k].key
                      /\ Acts[first].arg = rsync_inputs[k].files
                      /\ IsRsyncRun(Acts[last])
                      /\ Acts[last].dest = rsync_inputs[k].key
                      /\ Acts[last].arg[Len(Acts[last].arg)] =
                            (IF target_def.type = "remote"
                             THEN target_def.rsync_host \o << ":" >>
                             ELSE << >>) \o rsync_inputs[k].key
                      /\ ~dry_run => IsMkdirRun(Acts[first + 1], rsync_inputs[k].key)
                      /\ dry_run => IsIn(s_n, Acts[last].arg[2])
            /\ dry_run => \A e \in 1..Len(effects) :
                              \A d \in 1..Len(rsync_inputs) :
                                  ~IsMkdirRun(effects[e], rsync_inputs[d].key)
            /\ pc = "synced" => dest_n = Len(rsync_inputs)

C21_Witness ==
    /\ pc = "synced"
    /\ ~no_run
    /\ ~dry_run
    /\ Len(rsync_inputs) = 2
    /\ Len(Acts) = 6
    /\ Acts[2].status = 1
    /\ Acts[3].status = 1
    /\ IsRsyncRun(Acts[6])

\* the text contains an entry of region_list_include or an always-allowed region
CoveredByInclude(text) ==
    \E e \in Elems(region_list_include) \cup { s_World, s_Unknown } : IsIn(e, text)

\* the file just classified was admitted under a non-empty region_list_include,
\* has no special category and has been put into the mapping
AdmittedToRegionFolder ==
    /\ pc = "pushed"
    /\ region_list_include # << >>
    /\ allowed_special = Some(TRUE)
    /\ allowed_region = Some(TRUE)
    /\ release_info.special = None

\* C22 as stated: with a non-empty region_list_include an admitted file without
\* special category is in the folder of its region_dir, and region_dir
\* contains an entry of region_list_include or "World" or "Unknown".
C22_FolderCoveredAsStated ==
    AdmittedToRegionFolder =>
        /\ files_to_push =
              << [key |-> JoinPath(remote_dir_full, release_info.region_dir),
                  files |-> << filename >>] >>
        /\ CoveredByInclude(release_info.region_dir)

\* C22: with a non-empty region_list_include an admitted file without special
\* category is in the folder of its region_dir, and it is region_full, the tag
\* the region was matched from, that contains an entry of region_list_include
\* or "World" or "Unknown"; region_dir is contained in region_full and holds
\* such an entry whenever the two are equal, but not always on a partial match.
C22_FolderOfCoveredTag ==
    AdmittedToRegionFolder =>
        /\ files_to_push =
              << [key |-> JoinPath(remote_dir_full, release_info.region_dir),
                  files |-> << filename >>] >>
        /\ CoveredByInclude(release_info.region_full)
        /\ IsIn(release_info.region_dir, release_info.region_full)
        /\ release_info.region_dir = release_info.region_full =>
              CoveredByInclude(release_info.region_dir)

C22_Witness ==
    /\ AdmittedToRegionFolder
    /\ region_list_include = << s_Europe >>
    /\ release_info.region_full = s_Europe_USA
    /\ release_info.region_dir = s_USA
    /\ files_to_push[1].key = s_dest_snes \o << "/" >> \o s_USA

====
